---- MODULE Spec2Model ----
(***************************************************************************)
(* A model of the rfid-backend reconcile pipeline:                         *)
(*   - models/wildApricotContact.go : the field extractor (pure functions) *)
(*   - main.go                      : the ticker goroutine and the cycle   *)
(*                                    updateDatabaseFromWildApricot        *)
(*   - db/schema/tagsdb.sql         : the Store (members, links)           *)
(* Strings are sequences of one-character strings, so that strconv.ParseInt*)
(* is computed digit by digit.  A JSON value (Go interface{}) is a record  *)
(* tagged by "kind".                                                       *)
(***************************************************************************)
EXTENDS Integers, Sequences, FiniteSets, TLC

\* ------------------------------------------------------------------ bounds
MaxStrLen == 2      \* longest string enumerated over Alphabet
MaxItems == 2       \* longest training list enumerated
MaxFields == 2      \* longest FieldValues list of an extractor input
MaxDuring == 2      \* ticks that fire while one cycle runs
MaxStreak == 2      \* the consecutive-failure counter saturates here

\* --------------------------------------------------------- program constants
\* strconv.ParseInt(strVal, 10, 32): the largest value of bit size 32
MaxInt32 == 2147483647
\* the last accumulator that may still take a digit without leaving 32 bits
CutoffInt32 == MaxInt32 \div 10
\* (2^32 - 1) \div 10: the last accumulator that may still take a digit
\* without leaving the 32 bits of ParseUint
CutoffUint32 == 429496729
\* cfg.TagIdFieldName and cfg.TrainingFieldName (values of config.yml)
TagIdFieldName == <<"T", "a", "g">>
TrainingFieldName == <<"T", "r", "n">>
OtherFieldName == <<"E", "m", "l">>

\* ------------------------------------------------------------ JSON values
NilValue == [kind |-> "nil"]
StringValue(s) == [kind |-> "string", str |-> s]
NumberValue(n) == [kind |-> "number", num |-> n]
BoolValue(b) == [kind |-> "bool", b |-> b]
ListValue(items) == [kind |-> "list", items |-> items]
MapValue(m) == [kind |-> "map", m |-> m]

\* m[key] of a Go map[string]interface{}: the nil interface when key is absent
MapGet(m, key) == IF key \in DOMAIN m THEN m[key] ELSE NilValue

\* --------------------------------------------------------- strconv.ParseInt
Digits == {"0", "1", "2", "3", "4", "5", "6", "7", "8", "9"}

DigitVal(c) ==
    CASE c = "0" -> 0 [] c = "1" -> 1 [] c = "2" -> 2 [] c = "3" -> 3
      [] c = "4" -> 4 [] c = "5" -> 5 [] c = "6" -> 6 [] c = "7" -> 7
      [] c = "8" -> 8 [] c = "9" -> 9

\* The accumulator of strconv.ParseUint(s, 10, 32), kept within 32-bit
\* arithmetic: [hi |-> FALSE, v |-> n] is the value n <= MaxInt32, and
\* [hi |-> TRUE, v |-> n] is the value MaxInt32 + 1 + n <= 2^32 - 1.
LowAcc(n) == [hi |-> FALSE, v |-> n]
HighAcc(n) == [hi |-> TRUE, v |-> n]

\* ParseUint reads the bytes from left to right and returns at the first byte
\* that is no digit (syntax) or the first digit that takes the value above
\* 2^32 - 1 (range), whichever comes first.
RECURSIVE ParseUint32(_, _)
ParseUint32(s, acc) ==
    IF s = <<>> THEN [err |-> "", acc |-> acc]
    ELSE IF Head(s) \notin Digits THEN [err |-> "syntax", acc |-> LowAcc(0)]
    ELSE LET d == DigitVal(Head(s))
         IN  IF acc.hi THEN [err |-> "range", acc |-> HighAcc(MaxInt32)]
             ELSE IF acc.v < CutoffInt32 \/ (acc.v = CutoffInt32 /\ d <= 7)
                  THEN ParseUint32(Tail(s), LowAcc(acc.v * 10 + d))
             ELSE IF acc.v < CutoffUint32 \/ (acc.v = CutoffUint32 /\ d <= 5)
                  THEN ParseUint32(Tail(s),
                                   HighAcc((acc.v - (CutoffInt32 + 1)) * 10 + 2 + d))
             ELSE [err |-> "range", acc |-> HighAcc(MaxInt32)]

\* strconv.ParseInt(s, 10, 32): [err |-> "" | "syntax" | "range", val |-> n]
ParseInt32(s) ==
    IF s = <<>> THEN [err |-> "syntax", val |-> 0]
    ELSE LET neg == Head(s) = "-"
             body == IF Head(s) \in {"+", "-"} THEN Tail(s) ELSE s
             un == IF body = <<>> THEN [err |-> "syntax", acc |-> LowAcc(0)]
                   ELSE ParseUint32(body, LowAcc(0))
         IN  IF un.err = "syntax" THEN [err |-> "syntax", val |-> 0]
             ELSE IF ~neg /\ (un.err = "range" \/ un.acc.hi)
                  THEN [err |-> "range", val |-> MaxInt32]
             ELSE IF neg /\ (un.err = "range" \/ (un.acc.hi /\ un.acc.v > 0))
                  THEN [err |-> "range", val |-> (-MaxInt32) - 1]
             ELSE IF un.acc.hi THEN [err |-> "", val |-> (-MaxInt32) - 1]
             ELSE [err |-> "", val |-> IF neg THEN -un.acc.v ELSE un.acc.v]

\* ------------------------------------------------------------- the extractor
\* Results: [err |-> BOOLEAN, tagId |-> n] and [err |-> BOOLEAN, labels |-> seq];
\* a nil slice is the empty sequence.

\* variant: the failed type assertion is not checked, strVal is left ""
parseTagIdUnchecked(fieldValue) ==
    IF fieldValue.Value.kind = "nil" THEN [err |-> FALSE, tagId |-> 0]
    ELSE LET strVal == IF fieldValue.Value.kind = "string"
                       THEN fieldValue.Value.str ELSE <<>>
         IN  IF Len(strVal) <= 0 THEN [err |-> FALSE, tagId |-> 0]
             ELSE LET p == ParseInt32(strVal)
                  IN  IF p.err # "" THEN [err |-> TRUE, tagId |-> 0]
                      ELSE IF p.val <= 0 THEN [err |-> TRUE, tagId |-> 0]
                      ELSE [err |-> FALSE, tagId |-> p.val]

\* variant: the empty string is handed to ParseInt like any other
parseTagIdNoBlank(fieldValue) ==
    IF fieldValue.Value.kind = "nil" THEN [err |-> FALSE, tagId |-> 0]
    ELSE IF fieldValue.Value.kind # "string" THEN [err |-> TRUE, tagId |-> 0]
    ELSE LET p == ParseInt32(fieldValue.Value.str)
         IN  IF p.err # "" THEN [err |-> TRUE, tagId |-> 0]
             ELSE IF p.val <= 0 THEN [err |-> TRUE, tagId |-> 0]
             ELSE [err |-> FALSE, tagId |-> p.val]

parseTagId(fieldValue) ==
    IF fieldValue.Value.kind = "nil" THEN [err |-> FALSE, tagId |-> 0]
    ELSE IF fieldValue.Value.kind # "string" THEN [err |-> TRUE, tagId |-> 0]
    ELSE LET strVal == fieldValue.Value.str
         IN  IF Len(strVal) <= 0 THEN [err |-> FALSE, tagId |-> 0]
             ELSE LET p == ParseInt32(strVal)
                  IN  IF p.err # "" THEN [err |-> TRUE, tagId |-> 0]
                      ELSE IF p.val <= 0 THEN [err |-> TRUE, tagId |-> 0]
                      ELSE [err |-> FALSE, tagId |-> p.val]

extractLabelFromTrainingMap(trainingMap) ==
    LET v == MapGet(trainingMap, "Label")
    IN  IF v.kind = "string" THEN [err |-> FALSE, label |-> v.str]
        ELSE [err |-> TRUE, label |-> <<>>]

\* variant: a malformed item ends the loop with the labels collected so far
RECURSIVE parseLabelsLoopPartial(_, _)
parseLabelsLoopPartial(trainingValues, labels) ==
    IF trainingValues = <<>> THEN [err |-> FALSE, labels |-> labels]
    ELSE LET t == Head(trainingValues)
         IN  IF t.kind # "map" THEN [err |-> TRUE, labels |-> labels]
             ELSE LET l == extractLabelFromTrainingMap(t.m)
                  IN  IF l.err THEN [err |-> TRUE, labels |-> labels]
                      ELSE parseLabelsLoopPartial(Tail(trainingValues),
                                                  Append(labels, l.label))

RECURSIVE parseLabelsLoop(_, _)
parseLabelsLoop(trainingValues, labels) ==
    IF trainingValues = <<>> THEN [err |-> FALSE, labels |-> labels]
    ELSE LET t == Head(trainingValues)
         IN  IF t.kind # "map" THEN [err |-> TRUE, labels |-> <<>>]
             ELSE LET l == extractLabelFromTrainingMap(t.m)
                  IN  IF l.err THEN [err |-> TRUE, labels |-> <<>>]
                      ELSE parseLabelsLoop(Tail(trainingValues), Append(labels, l.label))

parseTrainingLabels(fieldValue) ==
    IF fieldValue.Value.kind # "list" THEN [err |-> TRUE, labels |-> <<>>]
    ELSE parseLabelsLoop(fieldValue.Value.items, <<>>)

\* index of the first field named name, 0 when there is none
FirstField(fieldValues, name) ==
    IF \E i \in 1..Len(fieldValues) : fieldValues[i].FieldName = name
    THEN CHOOSE i \in 1..Len(fieldValues) :
            /\ fieldValues[i].FieldName = name
            /\ \A j \in 1..(i - 1) : fieldValues[j].FieldName # name
    ELSE 0

ExtractTagID(c) ==
    LET i == FirstField(c.FieldValues, TagIdFieldName)
    IN  IF i # 0 THEN parseTagId(c.FieldValues[i]) ELSE [err |-> FALSE, tagId |-> 0]

ExtractTrainingLabels(c) ==
    LET i == FirstField(c.FieldValues, TrainingFieldName)
    IN  IF i # 0 THEN parseTrainingLabels(c.FieldValues[i])
        ELSE [err |-> FALSE, labels |-> <<>>]

\* variant: a training error returns the zero values, like a tag-id error
ExtractContactDataZeroOnError(c) ==
    LET t == ExtractTagID(c)
    IN  IF t.err
        THEN [id |-> 0, tagId |-> 0, labels |-> <<>>, err |-> TRUE,
              calls |-> <<"ExtractTagID">>]
        ELSE LET l == ExtractTrainingLabels(c)
             IN  IF l.err
                 THEN [id |-> 0, tagId |-> 0, labels |-> <<>>, err |-> TRUE,
                       calls |-> <<"ExtractTagID", "ExtractTrainingLabels">>]
                 ELSE [id |-> c.Id, tagId |-> t.tagId, labels |-> l.labels,
                       err |-> FALSE,
                       calls |-> <<"ExtractTagID", "ExtractTrainingLabels">>]

\* calls: the extractors ExtractContactData invoked, in order
ExtractContactData(c) ==
    LET t == ExtractTagID(c)
    IN  IF t.err
        THEN [id |-> 0, tagId |-> 0, labels |-> <<>>, err |-> TRUE,
              calls |-> <<"ExtractTagID">>]
        ELSE LET l == ExtractTrainingLabels(c)
             IN  [id |-> c.Id, tagId |-> t.tagId, labels |-> l.labels, err |-> l.err,
                  calls |-> <<"ExtractTagID", "ExtractTrainingLabels">>]

\* ------------------------------------------------------ the Store (tagsdb.sql)
\* members: set of <<contact_id, tag_id>>, contact_id PRIMARY KEY (tag_id is
\*          indexed but not unique); membership_level is not produced by the
\*          extractor and is left out
\* trainings: set of training_name
\* links: set of <<tag_id, training_name>>, UNIQUE (tag_id, training_name)
EmptyStore == [members |-> {}, trainings |-> {}, links |-> {}]

SeqRange(s) == {s[i] : i \in 1..Len(s)}

LinksOf(st, tag) == {l[2] : l \in {x \in st.links : x[1] = tag}}

\* INSERT OR REPLACE of the members row keyed by contact_id
UpsertMember(members, contactId, tagId) ==
    {m \in members : m[1] # contactId} \cup {<<contactId, tagId>>}

\* delete every link of tagId, then insert one link per label
ReplaceLinks(links, tagId, labels) ==
    {l \in links : l[1] # tagId} \cup {<<tagId, lab>> : lab \in SeqRange(labels)}

\* one contact of the reconciliation as the design describes it (the service
\* itself is not part of the sources at hand): an extraction error is
\* contact-scoped and skips the contact (sections 4.2 step 1 and 7), tag id 0
\* skips persistence, otherwise upsert the member and replace the links
ReconcileContact(st, c) ==
    LET d == ExtractContactData(c)
    IN  IF d.err THEN st
        ELSE IF d.tagId = 0 THEN st
        ELSE [members |-> UpsertMember(st.members, c.Id, d.tagId),
              trainings |-> st.trainings \cup SeqRange(d.labels),
              links |-> ReplaceLinks(st.links, d.tagId, d.labels)]

\* the upstream fetch reads the directory and writes nothing to the Store
StoreAfterGetContacts(st) == st

\* the contacts are taken in the order of the fetched list; the design says
\* "for each contact" and fixes no order
RECURSIVE ProcessContactsData(_, _)
ProcessContactsData(st, cs) ==
    IF cs = <<>> THEN st
    ELSE ProcessContactsData(ReconcileContact(st, Head(cs)), Tail(cs))

\* what a call of ProcessContactsData leaves in the Store: a persistence
\* failure aborts the cycle with the Store unchanged (section 7 of the design)
StoreAfterProcess(st, cs, err) == IF err THEN st ELSE ProcessContactsData(st, cs)

\* ------------------------------------------------------------------- inputs
Alphabet == {"0", "1", "-", "a"}

RECURSIVE SeqsUpTo(_, _)
SeqsUpTo(S, n) ==
    IF n = 0 THEN {<<>>}
    ELSE LET shorter == SeqsUpTo(S, n - 1)
         IN  shorter \cup {Append(s, x) : s \in {t \in shorter : Len(t) = n - 1}, x \in S}

Str1023 == <<"1", "0", "2", "3">>
StrMaxInt32 == <<"2", "1", "4", "7", "4", "8", "3", "6", "4", "7">>
StrMaxInt32Plus1 == <<"2", "1", "4", "7", "4", "8", "3", "6", "4", "8">>
StrMaxUint32 == <<"4", "2", "9", "4", "9", "6", "7", "2", "9", "5">>
StrMaxUint32Plus1 == <<"4", "2", "9", "4", "9", "6", "7", "2", "9", "6">>
StrMinInt32 == <<"-">> \o StrMaxInt32Plus1
StrMinus5 == <<"-", "5">>
LongStrings ==
    {Str1023, StrMaxInt32, StrMaxInt32Plus1, StrMaxUint32, StrMaxUint32Plus1,
     StrMinInt32, StrMinus5, <<"0">> \o StrMaxInt32, <<"+">> \o Str1023,
     <<"+">>, <<"+", "0">>, <<"1", "_", "0">>, <<" ", "1">>,
     StrMaxUint32Plus1 \o <<"a">>, <<"-">> \o StrMaxUint32Plus1 \o <<"a">>,
     StrMaxUint32 \o <<"a">>, StrMaxInt32 \o <<"0">>}

TagStrings == SeqsUpTo(Alphabet, MaxStrLen) \cup LongStrings

Laser == <<"L">>
WoodShop == <<"W">>

\* items of a training list: a record with a string Label, a record whose
\* Label is a number, a record without Label, and two items that are no record
TrainingItems ==
    {MapValue([Id |-> NumberValue(1), Label |-> StringValue(Laser)]),
     MapValue([Id |-> NumberValue(2), Label |-> StringValue(WoodShop)]),
     MapValue([Id |-> NumberValue(3), Label |-> NumberValue(7)]),
     MapValue([Id |-> NumberValue(4)]),
     StringValue(Laser)}

TrainingLists == {ListValue(l) : l \in SeqsUpTo(TrainingItems, MaxItems)}

Scalars ==
    {NilValue, NumberValue(7), BoolValue(TRUE),
     MapValue([Id |-> NumberValue(1), Label |-> StringValue(Laser)])}

FieldValue(name, value) == [FieldName |-> name, Value |-> value]

\* the tag-id field with every string, scalar and two lists; the training
\* field with every list, scalar and one string; and one unrelated field
FocusFields ==
    {FieldValue(TagIdFieldName, v) :
        v \in {StringValue(s) : s \in TagStrings} \cup Scalars
                \cup {ListValue(<<>>),
                      ListValue(<<MapValue([Id |-> NumberValue(1),
                                            Label |-> StringValue(Laser)])>>)}}
      \cup {FieldValue(TrainingFieldName, v) :
                v \in TrainingLists \cup Scalars \cup {StringValue(Laser)}}
      \cup {FieldValue(OtherFieldName, StringValue(<<"a">>))}

\* the fields that surround the focus field in an extractor input
ContextFields ==
    {FieldValue(OtherFieldName, StringValue(<<"a">>)),
     FieldValue(TagIdFieldName, StringValue(<<"1">>)),
     FieldValue(TrainingFieldName, ListValue(<<StringValue(Laser)>>))}

InsertAt(s, i, x) == SubSeq(s, 1, i - 1) \o <<x>> \o SubSeq(s, i, Len(s))

FieldLists ==
    {<<>>} \cup
    UNION {{InsertAt(ctx, i, f) : i \in 1..(Len(ctx) + 1), f \in FocusFields} :
              ctx \in SeqsUpTo(ContextFields, MaxFields - 1)}

Contact(id, fields) == [Id |-> id, FieldValues |-> fields]

ExtractInputs == {Contact(1, fl) : fl \in {l \in FieldLists : Len(l) <= MaxFields}}

\* what GetContacts can return in a cycle: contacts with distinct ids whose
\* tag field holds "1" or "10" and whose training field lists Laser and
\* WoodShop, or Laser alone; contact 1 may also have a blank tag field or a
\* malformed training list
ContactIds == {1, 2}
LaserItem == MapValue([Id |-> NumberValue(1), Label |-> StringValue(Laser)])
WoodShopItem == MapValue([Id |-> NumberValue(2), Label |-> StringValue(WoodShop)])
PoolContact(id, tag, training) ==
    Contact(id, <<FieldValue(TagIdFieldName, StringValue(tag)),
                  FieldValue(TrainingFieldName, training)>>)
PoolContacts ==
    {PoolContact(id, <<"1">>, ListValue(<<LaserItem, WoodShopItem>>)) : id \in ContactIds}
        \cup {PoolContact(id, <<"1">>, ListValue(<<LaserItem>>)) : id \in ContactIds}
        \cup {PoolContact(id, <<"1", "0">>, ListValue(<<LaserItem>>)) : id \in ContactIds}
        \cup {PoolContact(1, <<>>, ListValue(<<LaserItem>>)),
              PoolContact(1, <<"1">>, ListValue(<<StringValue(Laser)>>))}
FetchResults ==
    {cs \in SeqsUpTo(PoolContacts, Cardinality(ContactIds)) :
        \A i, j \in 1..Len(cs) : i # j => cs[i].Id # cs[j].Id}

\* -------------------------------------------------------------------- state
VARIABLES
    loop,          \* the goroutine of main: "recv" (blocked in range ticker.C),
                   \*   "call" (inside the call of line 76), "exit"
    pc,            \* inside updateDatabaseFromWildApricot: "idle", "fetch", "process"
    running,       \* invocations of updateDatabaseFromWildApricot not yet returned
    tickC,         \* ticker.C, a channel of capacity 1; a tick carries the number
                   \*   of ticks that had fired during the running cycle (0: idle)
    during,        \* ticks fired since the running cycle started
    curTick,       \* the tick that started the current (or last) cycle
    contacts,      \* the local variable contacts of the running cycle
    store,         \* the Store
    storeChanged,  \* the Store differs from what it was when the cycle started
    fetchFailed,   \* GetContacts returned an error in the current cycle
    processCalled, \* ProcessContactsData was invoked in the current cycle
    lastOutcome,   \* how the last returned cycle ended
    failStreak,    \* consecutive failed cycles, saturating at MaxStreak
    contact,       \* extractor development: the input contact
    res            \* extractor development: the operation applied and its result

schedVars ==
    <<loop, pc, running, tickC, during, curTick, contacts, store, storeChanged,
      fetchFailed, processCalled, lastOutcome, failStreak>>
vars == <<schedVars, contact, res>>

NoResult == [op |-> "none"]

InitSched ==
    /\ loop = "recv"
    /\ pc = "idle"
    /\ running = 0
    /\ tickC = <<>>
    /\ during = 0
    /\ curTick = 0
    /\ contacts = <<>>
    /\ store = EmptyStore
    /\ storeChanged = FALSE
    /\ fetchFailed = FALSE
    /\ processCalled = FALSE
    /\ lastOutcome = "none"
    /\ failStreak = 0

Init ==
    /\ InitSched
    /\ contact = Contact(1, <<>>)
    /\ res = NoResult

\* ---------------------------------------------------------------- the ticker
\* the runtime's send on a ticker channel never blocks: the tick is buffered
\* when the single slot is free and dropped otherwise
TickerSendQueued(ch, t) == Append(ch, t)
TickerSend(ch, t) == IF Len(ch) < 1 THEN Append(ch, t) ELSE ch

\* the 6-minute ticker fires while the goroutine waits in range ticker.C
TickIdle ==
    /\ loop = "recv"
    /\ running = 0
    /\ tickC' = TickerSend(tickC, 0)
    /\ UNCHANGED <<loop, pc, running, during, curTick, contacts, store, storeChanged,
                   fetchFailed, processCalled, lastOutcome, failStreak, contact, res>>

\* the ticker fires while a cycle runs
TickDuring ==
    /\ running > 0
    /\ during < MaxDuring
    /\ during' = during + 1
    /\ tickC' = TickerSend(tickC, during + 1)
    /\ UNCHANGED <<loop, pc, running, curTick, contacts, store, storeChanged,
                   fetchFailed, processCalled, lastOutcome, failStreak, contact, res>>

\* --------------------------------------------------------------- the cycle
\* line 76 is a plain call: the loop does not receive again until it returns
LoopDuringCallGo == "recv"
LoopDuringCall == "call"

\* for range ticker.C receives a tick and calls updateDatabaseFromWildApricot
Receive ==
    /\ loop = "recv"
    /\ tickC # <<>>
    /\ curTick' = Head(tickC)
    /\ tickC' = Tail(tickC)
    /\ loop' = LoopDuringCall
    /\ running' = running + 1
    /\ pc' = "fetch"
    /\ during' = 0
    /\ storeChanged' = FALSE
    /\ fetchFailed' = FALSE
    /\ processCalled' = FALSE
    /\ UNCHANGED <<contacts, store, lastOutcome, failStreak, contact, res>>

\* if err != nil { log.Printf(...); return } after GetContacts
AfterGetContactsNoReturn(err) == "process"
AfterGetContacts(err) == IF err THEN "return" ELSE "process"

\* if err = ProcessContactsData(contacts); err != nil { log.Printf(...); return }
AfterProcessContactsData(err) == IF err THEN "persist_failed" ELSE "ok"

\* a failure is logged with log.Printf and the function returns to the loop
LoopAfterFailureFatal == "exit"
LoopAfterFailure == "recv"

Streak(outcome) ==
    IF outcome = "ok" THEN 0
    ELSE IF failStreak < MaxStreak THEN failStreak + 1 ELSE MaxStreak

\* updateDatabaseFromWildApricot returns with the given outcome
Return(outcome) ==
    /\ pc' = "idle"
    /\ contacts' = <<>>
    /\ during' = 0
    /\ running' = running - 1
    /\ loop' = IF outcome = "ok" THEN "recv" ELSE LoopAfterFailure
    /\ lastOutcome' = outcome
    /\ failStreak' = Streak(outcome)

GetContactsReturns(err, cs) ==
    /\ pc = "fetch"
    /\ running > 0
    /\ fetchFailed' = err
    /\ IF AfterGetContacts(err) = "return"
       THEN Return("fetch_failed")
       ELSE /\ pc' = "process"
            /\ contacts' = cs
            /\ UNCHANGED <<loop, running, during, lastOutcome, failStreak>>
    /\ store' = StoreAfterGetContacts(store)
    /\ storeChanged' = (storeChanged \/ store' # store)
    /\ UNCHANGED <<tickC, curTick, processCalled, contact, res>>

GetContactsOk == \E cs \in FetchResults : GetContactsReturns(FALSE, cs)

GetContactsErr == GetContactsReturns(TRUE, <<>>)

ProcessReturns(err) ==
    /\ pc = "process"
    /\ running > 0
    /\ processCalled' = TRUE
    /\ store' = StoreAfterProcess(store, contacts, err)
    /\ storeChanged' = (storeChanged \/ store' # store)
    /\ Return(AfterProcessContactsData(err))
    /\ UNCHANGED <<tickC, curTick, fetchFailed, contact, res>>

ProcessOk == ProcessReturns(FALSE)

ProcessErr == ProcessReturns(TRUE)

Next ==
    \/ TickIdle
    \/ TickDuring
    \/ Receive
    \/ GetContactsOk
    \/ GetContactsErr
    \/ ProcessOk
    \/ ProcessErr

Spec == Init /\ [][Next]_vars

\* the ticker keeps firing, a buffered tick is received, and the steps of a
\* cycle that has been entered are taken
LiveSpec ==
    /\ Init
    /\ [][Next]_vars
    /\ WF_vars(TickIdle)
    /\ WF_vars(Receive)

\* ------------------------------------------------ the extractor development
InitExtract ==
    /\ InitSched
    /\ contact \in ExtractInputs
    /\ res = NoResult

DoExtractTagID ==
    /\ res.op = "none"
    /\ res' = [op |-> "ExtractTagID", r |-> ExtractTagID(contact)]
    /\ UNCHANGED <<schedVars, contact>>

DoExtractTrainingLabels ==
    /\ res.op = "none"
    /\ res' = [op |-> "ExtractTrainingLabels", r |-> ExtractTrainingLabels(contact)]
    /\ UNCHANGED <<schedVars, contact>>

DoExtractContactData ==
    /\ res.op = "none"
    /\ res' = [op |-> "ExtractContactData", r |-> ExtractContactData(contact)]
    /\ UNCHANGED <<schedVars, contact>>

NextExtract ==
    \/ DoExtractTagID
    \/ DoExtractTrainingLabels
    \/ DoExtractContactData

ExtractSpec == InitExtract /\ [][NextExtract]_vars

\* =================================================================== claims
\* ---- the scheduler (Spec)

\* C1: at most one reconcile cycle (updateDatabaseFromWildApricot) is executing
\* at any time: the number of invocations entered and not yet returned never
\* exceeds one, however many ticks fire while a cycle runs.
C1_AtMostOneCycle == running <= 1

C1_Witness == running = 1 /\ during >= 2 /\ tickC # <<>>

\* C2 as stated: a tick that fires during a running cycle never causes a cycle
\* to start, so every running cycle was started by a tick that fired while no
\* cycle was running.
C2_Original == running > 0 => curTick = 0

\* C2 as amended: the ticker channel holds at most one tick.  The first tick
\* that fires during a running cycle is buffered and starts a cycle as soon as
\* the running one returns; every later tick of that cycle is dropped and
\* never starts a cycle.
C2_AtMostOnePending ==
    /\ Len(tickC) <= 1
    /\ \A i \in 1..Len(tickC) : tickC[i] <= 1
    /\ curTick <= 1
    /\ (running > 0 /\ during >= 1) => tickC = <<1>>

C2_Witness == running > 0 /\ curTick = 1 /\ during >= 2 /\ tickC = <<1>>

\* C3: when GetContacts fails in a cycle, ProcessContactsData is never invoked
\* in that cycle and the Store (from which the caches are read) is what it was
\* when the cycle started.
C3_FetchFailureLeavesStore ==
    fetchFailed => (~processCalled /\ ~storeChanged /\ pc # "process")

C3_Witness ==
    /\ fetchFailed
    /\ pc = "idle"
    /\ lastOutcome = "fetch_failed"
    /\ store.links # {}

\* C4: a failed cycle (fetch or persistence failure) never ends the ticker
\* goroutine, and after any number of consecutive failed cycles a new cycle
\* that fetches again is eventually started, given that the ticker keeps firing.
C4_FailureNeverStops ==
    /\ [](loop # "exit")
    /\ \A n \in 1..MaxStreak : (pc = "idle" /\ failStreak = n) ~> (pc = "fetch")

C4_Witness ==
    /\ pc = "fetch"
    /\ failStreak = MaxStreak
    /\ lastOutcome \in {"fetch_failed", "persist_failed"}

\* ---- the extractor (ExtractSpec)
TagIdx == FirstField(contact.FieldValues, TagIdFieldName)
TagValue == contact.FieldValues[TagIdx].Value
TrainIdx == FirstField(contact.FieldValues, TrainingFieldName)
TrainValue == contact.FieldValues[TrainIdx].Value
NoTag == [err |-> FALSE, tagId |-> 0]
FailedTag == [err |-> TRUE, tagId |-> 0]

\* C5 as stated: whenever the tag-id field is present and its value is not a
\* string (a list, a number, a record, a boolean or null), ExtractTagID fails.
C5_Original ==
    (res.op = "ExtractTagID" /\ TagIdx # 0 /\ TagValue.kind # "string") => res.r.err

\* C5 as amended: whenever the tag-id field is present and its value is
\* neither a string nor null, ExtractTagID fails with an error and tag id 0;
\* a null value yields tag id 0 with no error.
C5_NonStringFailsNullIsBlank ==
    (res.op = "ExtractTagID" /\ TagIdx # 0) =>
        /\ TagValue.kind \notin {"string", "nil"} => res.r = FailedTag
        /\ TagValue.kind = "nil" => res.r = NoTag

C5_Witness ==
    /\ res.op = "ExtractTagID"
    /\ TagIdx # 0
    /\ TagValue.kind = "list"
    /\ Len(TagValue.items) > 0
    /\ res.r.err

\* C6: whenever the tag-id field is absent from the field list, or present
\* with an empty-string value, ExtractTagID returns tag id 0 with no error.
C6_AbsentOrBlankIsZero ==
    (res.op = "ExtractTagID" /\ (TagIdx = 0 \/ TagValue = StringValue(<<>>)))
        => res.r = NoTag

C6_Witness ==
    /\ res.op = "ExtractTagID"
    /\ TagIdx > 1
    /\ TagValue = StringValue(<<>>)
    /\ res.r = NoTag

\* the value of a digit string that is at most MaxInt32 (-1 above it),
\* independent of ParseInt32
AllDigits(s) == \A i \in 1..Len(s) : s[i] \in Digits
RECURSIVE DecimalValue(_, _)
DecimalValue(s, acc) ==
    IF s = <<>> THEN acc
    ELSE IF acc < 0 \/ acc > CutoffInt32
              \/ (acc = CutoffInt32 /\ DigitVal(Head(s)) > 7) THEN -1
    ELSE DecimalValue(Tail(s), acc * 10 + DigitVal(Head(s)))

\* decimal syntax, independent of ParseInt32: an optional sign and then one
\* or more digits
Unsigned(s) == IF s # <<>> /\ Head(s) \in {"+", "-"} THEN Tail(s) ELSE s
IsBase10(s) == Unsigned(s) # <<>> /\ AllDigits(Unsigned(s))
RECURSIVE StripZeros(_)
StripZeros(s) == IF s # <<>> /\ Head(s) = "0" THEN StripZeros(Tail(s)) ELSE s
\* the significant digits of a decimal string
Significant(s) == StripZeros(Unsigned(s))
IsPositive(s) == Head(s) # "-" /\ Significant(s) # <<>>
\* digit strings of equal length compared as numbers
RECURSIVE DigitsLeq(_, _)
DigitsLeq(a, b) ==
    IF a = <<>> THEN TRUE
    ELSE IF DigitVal(Head(a)) # DigitVal(Head(b))
         THEN DigitVal(Head(a)) < DigitVal(Head(b))
         ELSE DigitsLeq(Tail(a), Tail(b))
AtMost(s, limit) ==
    \/ Len(Significant(s)) < Len(limit)
    \/ Len(Significant(s)) = Len(limit) /\ DigitsLeq(Significant(s), limit)

\* C7: for a non-empty string value of the tag-id field, ExtractTagID fails
\* when the string is no base-10 integer, fails when it parses to a value
\* <= 0, and otherwise returns the parsed integer with no error for every
\* value in 1 .. 2^32-1; a successful result is never 0.
C7_Uint32RangeAccepted ==
    (res.op = "ExtractTagID" /\ TagIdx # 0 /\ TagValue.kind = "string"
        /\ TagValue.str # <<>>) =>
        LET s == TagValue.str
        IN  /\ ~IsBase10(s) => res.r.err
            /\ (IsBase10(s) /\ ~IsPositive(s)) => res.r.err
            /\ (IsBase10(s) /\ IsPositive(s) /\ AtMost(s, StrMaxUint32)) => ~res.r.err
            /\ (IsBase10(s) /\ IsPositive(s) /\ AtMost(s, StrMaxInt32)) =>
                    res.r.tagId = DecimalValue(Significant(s), 0)
            /\ ~res.r.err => res.r.tagId # 0

\* a list item that is a record with a string "Label"
WellFormedItem(t) ==
    t.kind = "map" /\ "Label" \in DOMAIN t.m /\ t.m["Label"].kind = "string"

\* C8: ExtractTrainingLabels is all-or-nothing: absent field, empty result and
\* no error; a value that is not a list, or any item that is not a record with
\* a string "Label", an error and no labels at all; otherwise the Label of
\* every item, in list order, and no error.
C8_LabelsAllOrNothing ==
    res.op = "ExtractTrainingLabels" =>
        IF TrainIdx = 0 THEN res.r = [err |-> FALSE, labels |-> <<>>]
        ELSE IF TrainValue.kind # "list" THEN res.r = [err |-> TRUE, labels |-> <<>>]
        ELSE IF \E i \in 1..Len(TrainValue.items) : ~WellFormedItem(TrainValue.items[i])
             THEN res.r = [err |-> TRUE, labels |-> <<>>]
             ELSE res.r = [err |-> FALSE,
                           labels |-> [i \in 1..Len(TrainValue.items) |->
                                          TrainValue.items[i].m["Label"].str]]

C8_Witness ==
    /\ res.op = "ExtractTrainingLabels"
    /\ TrainIdx # 0
    /\ TrainValue.kind = "list"
    /\ Len(TrainValue.items) >= 2
    /\ WellFormedItem(TrainValue.items[1])
    /\ ~WellFormedItem(TrainValue.items[2])
    /\ res.r = [err |-> TRUE, labels |-> <<>>]

\* C9: ExtractContactData returns at once, with zero values and without
\* calling ExtractTrainingLabels, when ExtractTagID fails; returns the contact
\* id and the tag id found, no labels and an error when only the training
\* extraction fails; and returns (contact id, tag id, labels) with no error
\* when both succeed.
C9_Composition ==
    res.op = "ExtractContactData" =>
        LET t == ExtractTagID(contact)
            l == ExtractTrainingLabels(contact)
        IN  IF t.err
            THEN res.r = [id |-> 0, tagId |-> 0, labels |-> <<>>, err |-> TRUE,
                          calls |-> <<"ExtractTagID">>]
            ELSE /\ res.r.calls = <<"ExtractTagID", "ExtractTrainingLabels">>
                 /\ res.r.id = contact.Id
                 /\ res.r.tagId = t.tagId
                 /\ res.r.err = l.err
                 /\ res.r.labels = IF l.err THEN <<>> ELSE l.labels

C9_Witness ==
    /\ res.op = "ExtractContactData"
    /\ ~ExtractTagID(contact).err
    /\ ExtractTrainingLabels(contact).err
    /\ res.r.id = contact.Id
    /\ res.r.tagId > 0
    /\ res.r.err

====
